---- MODULE Spec2Model ----
(***************************************************************************)
(* Model of the simulation / evaluation pipeline of oddit_backend:         *)
(*   orchestrator/simulator.py  EvaluationOrchestrator                     *)
(*   agents/user_agent.py       UserAgent                                  *)
(*   agents/customer_support_agent.py  CustomerSupportAgent                *)
(*   evaluators/judge.py        LLMJudge                                   *)
(* A text is a sequence of units (strings): a word, a marker, a fence.     *)
(* Every call of an external generator is an input [ok, text]: ok = FALSE  *)
(* is the call raising, which each driver catches.                         *)
(***************************************************************************)
EXTENDS Integers, Sequences, FiniteSets, TLC

\* ---------------------------------------------------------------- bounds
MaxBudget == 5
MaxFailures == 2

MaxRuns == 3

MaxParallel == 2

MaxTextLen == 5
\* The longest list of results handed to the aggregator directly.
MaxListLen == 12
\* The longest list of results of which every composition is tried.
MaxShortLen == 3

\* ------------------------------------------------------ program constants
DefaultMaxTurns == 10
NumCategories == 12

FAILURE_CATEGORIES ==
    << "technical_failures", "comprehension_failures",
       "response_quality_failures", "knowledge_failures",
       "task_execution_failures", "interaction_design_failures",
       "safety_compliance_failures", "escalation_boundary_failures",
       "user_experience_failures", "business_logic_failures",
       "meta_cognitive_failures", "temporal_failures" >>

Categories == { FAILURE_CATEGORIES[i] : i \in 1..Len(FAILURE_CATEGORIES) }

\* Part of the catalog of config/scenarios.py: id and type of a scenario.
SCENARIOS ==
    << [id |-> "order_delay", type |-> "order_delay"],
       [id |-> "no_order_id", type |-> "refund_request"] >>

PERSONALITIES ==
    << [id |-> "calm_polite"], [id |-> "frustrated_impatient"] >>

\* The value of a lookup that found no entry. A found entry is given by its
\* position in the catalog.
None == [found |-> FALSE, index |-> 0]

\* for x in catalog: if x["id"] == id: return x; return None
Lookup(catalog, id) ==
    LET hits == { i \in 1..Len(catalog) : catalog[i].id = id }
    IN  IF hits = {} THEN None
        ELSE [found |-> TRUE, index |-> CHOOSE i \in hits : \A j \in hits : i <= j]

\* Mutant: an unknown id gets the first scenario.
get_scenario_default(scenario_id) ==
    IF Lookup(SCENARIOS, scenario_id).found THEN Lookup(SCENARIOS, scenario_id)
    ELSE [found |-> TRUE, index |-> 1]

\* scenarios.py 250-255
get_scenario(scenario_id) == Lookup(SCENARIOS, scenario_id)

\* Mutant: an unknown id gets the first personality.
get_personality_default(personality_id) ==
    IF Lookup(PERSONALITIES, personality_id).found
    THEN Lookup(PERSONALITIES, personality_id)
    ELSE [found |-> TRUE, index |-> 1]

\* scenarios.py 258-263
get_personality(personality_id) == Lookup(PERSONALITIES, personality_id)

\* The ids a request may name; "" is an id not given (None).
ScenarioIds == { SCENARIOS[i].id : i \in 1..Len(SCENARIOS) } \cup {"nope"}

PersonalityIds ==
    { PERSONALITIES[i].id : i \in 1..Len(PERSONALITIES) } \cup {"nope", ""}

\* ------------------------------------------------------------ text helpers
Contains(text, unit) == \E i \in 1..Len(text) : text[i] = unit

Remove(text, unit) == SelectSeq(text, LAMBDA u : u # unit)

Whitespace == "ws"

RECURSIVE LStrip(_)
LStrip(text) ==
    IF text # << >> /\ Head(text) = Whitespace THEN LStrip(Tail(text)) ELSE text

RECURSIVE RStrip(_)
RStrip(text) ==
    IF text # << >> /\ text[Len(text)] = Whitespace
    THEN RStrip(SubSeq(text, 1, Len(text) - 1))
    ELSE text

\* str.strip()
Strip(text) == RStrip(LStrip(text))

\* A unit without its last character: a whitespace unit is one character and
\* leaves nothing, any other unit leaves a fragment.
CutUnit(unit) ==
    CASE unit = Whitespace -> << >>
      [] unit = "{12}"  -> << "{12" >>
      [] unit = "{12v}" -> << "{12v" >>
      [] unit = "{11}"  -> << "{11" >>
      [] unit = "{1}"   -> << "{1" >>
      [] unit = "{}"    -> << "{" >>
      [] unit = "[]"    -> << "[" >>
      [] unit = "json"  -> << "jso" >>
      [] OTHER          -> << "cut" >>

\* Python's text[a:b] for a >= 0 and b >= -1, positions counted in units;
\* b = -1 ends before the last character of the text.
Slice(text, a, b) ==
    IF b < 0
    THEN IF a >= Len(text) THEN << >>
         ELSE SubSeq(text, a + 1, Len(text) - 1) \o CutUnit(text[Len(text)])
    ELSE SubSeq(text, a + 1, IF b > Len(text) THEN Len(text) ELSE b)

\* ------------------------------------------------------- generator inputs
Raised == [ok |-> FALSE, text |-> << >>]

Said(text) == [ok |-> TRUE, text |-> text]

\* What the user model may say on a later turn.
UserTexts ==
    { << "msg" >>,
      << "msg", "GOAL_MET" >>,
      << "msg", "GIVING_UP" >>,
      << "msg", "GOAL_MET", "GIVING_UP" >> }

OpeningTexts == { << "hello", Whitespace >> }

AgentTexts == { << "reply" >> }

\* ------------------------------------------------------------- UserAgent
\* UserAgent.generate_initial_message
generate_initial_message(personality, scenario, llm) ==
    IF llm.ok THEN Strip(llm.text)
    ELSE << "Hi, I need help with", scenario.type >>

\* Mutant: a failed generation call makes the user give up.
generate_response_failureGivesUp(llm) ==
    IF llm.ok
    THEN [message   |-> Strip(Remove(Remove(llm.text, "GOAL_MET"), "GIVING_UP")),
          goal_met  |-> Contains(llm.text, "GOAL_MET"),
          giving_up |-> Contains(llm.text, "GIVING_UP"),
          error     |-> FALSE]
    ELSE [message   |-> << "I need help with my issue." >>,
          goal_met  |-> FALSE,
          giving_up |-> TRUE,
          error     |-> TRUE]

\* UserAgent.generate_response
generate_response(llm) ==
    IF llm.ok
    THEN [message   |-> Strip(Remove(Remove(llm.text, "GOAL_MET"), "GIVING_UP")),
          goal_met  |-> Contains(llm.text, "GOAL_MET"),
          giving_up |-> Contains(llm.text, "GIVING_UP"),
          error     |-> FALSE]
    ELSE [message   |-> << "I need help with my issue." >>,
          goal_met  |-> FALSE,
          giving_up |-> FALSE,
          error     |-> TRUE]

\* user_agent.py 58-71: the messages list built for the generator
generate_response_messages(conversation_history, agent_response) ==
    Append(SelectSeq(conversation_history,
                     LAMBDA msg : msg.role \in {"user", "assistant"}),
           [role |-> "user",
            content |-> << "The customer support agent just said:" >>
                          \o agent_response \o << "How do you respond?" >>])

\* Mutant: messages is the caller's list itself, so the append changes it.
generate_response_history_aliased(conversation_history, agent_response) ==
    generate_response_messages(conversation_history, agent_response)

\* user_agent.py 58-71: the caller's conversation_history after the call;
\* messages is a new list and conversation_history is only read.
generate_response_history(conversation_history, agent_response) ==
    conversation_history

\* ---------------------------------------------------- CustomerSupportAgent
\* customer_support_agent.py 44-57: the messages list built for the generator
respond_messages(conversation_history, user_message) ==
    Append(SelectSeq(conversation_history,
                     LAMBDA msg : msg.role \in {"user", "assistant"}),
           [role |-> "user", content |-> user_message])

\* Mutant: messages is the caller's list itself, so the append changes it.
respond_history_aliased(conversation_history, user_message) ==
    respond_messages(conversation_history, user_message)

\* customer_support_agent.py 44-57: the caller's conversation_history after
\* the call; messages is a new list and conversation_history is only read.
respond_history(conversation_history, user_message) == conversation_history

\* CustomerSupportAgent.respond
respond(llm) ==
    IF llm.ok
    THEN [response |-> llm.text, error |-> FALSE]
    ELSE [response |-> << "I apologize, but I'm experiencing technical difficulties.",
                          "Error" >>,
          error |-> TRUE]

\* ---------------------------------------------------------------- LLMJudge
\* The three-backquote fence marker, one unit.
Fence == "FENCE"

Label == "json"

\* The JSON documents a scorer may write, each one unit of text: an object
\* holding the first ncat categories of FAILURE_CATEGORIES, or an array.
Documents ==
    [ d \in {"{12}", "{12v}", "{11}", "{1}", "{}", "[]"} |->
        CASE d = "{12}" -> [object |-> TRUE,  ncat |-> 12]
          [] d = "{12v}" -> [object |-> TRUE,  ncat |-> 12]
          [] d = "{11}" -> [object |-> TRUE,  ncat |-> 11]
          [] d = "{1}"  -> [object |-> TRUE,  ncat |-> 1]
          [] d = "{}"   -> [object |-> TRUE,  ncat |-> 0]
          [] d = "[]"   -> [object |-> FALSE, ncat |-> 0] ]

SummaryKeys == {"overall_summary", "primary_failure_mode", "suggestion"}

NoScores == [c \in {} |-> 0]

\* The evaluation before the judge has run.
NoEvaluation ==
    [keys |-> {}, score |-> NoScores, confidence |-> NoScores,
     primary_failure_mode |-> "", error |-> ""]

\* str.find(unit, start): 0-based index of the first unit at or after start,
\* -1 when there is none.
Find(text, unit, start) ==
    LET hits == { i \in start..(Len(text) - 1) : text[i + 1] = unit }
    IN  IF hits = {} THEN -1
        ELSE CHOOSE i \in hits : \A j \in hits : i <= j

\* str.find of the labeled fence: the first fence directly followed by the label.
FindLabeled(text) ==
    LET hits == { i \in 0..(Len(text) - 2) :
                    text[i + 1] = Fence /\ text[i + 2] = Label }
    IN  IF hits = {} THEN -1
        ELSE CHOOSE i \in hits : \A j \in hits : i <= j

\* Mutant: any fence is looked for before the labeled fence.
ExtractJson_anyFenceFirst(text) ==
    IF Contains(text, Fence)
    THEN LET json_start == Find(text, Fence, 0) + 1
             json_end   == Find(text, Fence, json_start)
         IN  Strip(Slice(text, json_start, json_end))
    ELSE text

\* judge.py 69-76: the text handed to json.loads.
ExtractJson(text) ==
    IF FindLabeled(text) # -1
    THEN LET json_start == FindLabeled(text) + 2
             json_end   == Find(text, Fence, json_start)
         IN  Strip(Slice(text, json_start, json_end))
    ELSE IF Contains(text, Fence)
    THEN LET json_start == Find(text, Fence, 0) + 1
             json_end   == Find(text, Fence, json_start)
         IN  Strip(Slice(text, json_start, json_end))
    ELSE text

\* json.loads: whitespace around the one document is allowed, anything else
\* raises JSONDecodeError.
JsonLoads(text) ==
    LET t == Strip(text)
    IN  IF Len(t) = 1 /\ t[1] \in DOMAIN Documents
        THEN [ok |-> TRUE, doc |-> t[1]]
        ELSE [ok |-> FALSE, doc |-> ""]

\* The scores of the document {12v}, by category: scores range over 0..5.
VariedScores == << 1, 4, 0, 3, 5, 2, 4, 1, 3, 0, 5, 2 >>

DocCategories(d) == { FAILURE_CATEGORIES[i] : i \in 1..Documents[d].ncat }

\* The dict json.loads returns for an object document, scores as written by
\* the scorer (confidence in tenths).
DocEvaluation(d) ==
    [keys |-> DocCategories(d) \cup (IF Documents[d].ncat > 0 THEN SummaryKeys ELSE {}),
     score |-> [c \in DocCategories(d) |->
                  IF d = "{12v}"
                  THEN VariedScores[CHOOSE i \in 1..NumCategories :
                                        FAILURE_CATEGORIES[i] = c]
                  ELSE 2],
     confidence |-> [c \in DocCategories(d) |-> 9],
     primary_failure_mode |-> IF d = "{12v}" THEN "Escalation"
                              ELSE IF Documents[d].ncat > 0 THEN "Comprehension"
                              ELSE "",
     error |-> ""]

\* judge.py 88-96: the fallback evaluation of the except branch.
FallbackEvaluation(err) ==
    [keys |-> {"error", "technical_failures"} \cup SummaryKeys,
     score |-> [c \in {"technical_failures"} |-> 5],
     confidence |-> [c \in {"technical_failures"} |-> 0],
     primary_failure_mode |-> "Technical - Evaluation system failure",
     error |-> err]

\* LLMJudge.evaluate_conversation, given the scorer's answer to the prompt.
evaluate_conversation(scorer) ==
    IF ~scorer.ok THEN FallbackEvaluation("scorer call failed")
    ELSE LET loaded == JsonLoads(ExtractJson(scorer.text))
         IN  IF ~loaded.ok THEN FallbackEvaluation("JSONDecodeError")
             ELSE IF ~Documents[loaded.doc].object
             THEN FallbackEvaluation("TypeError")
             ELSE [DocEvaluation(loaded.doc) EXCEPT
                      !.keys = @ \cup {"meta"}]

\* Mutant: a failed scorer call is tried once more.
ScorerCalls_retried(scorer) ==
    IF scorer.ok THEN << "messages.create" >>
    ELSE << "messages.create", "messages.create" >>

\* judge.py 51-62: the calls of the scorer one evaluation makes
ScorerCalls(scorer) == << "messages.create" >>

\* Mutant: the judge drops the last message of the list it is handed.
evaluate_conversation_history_popped(conversation_history) ==
    SubSeq(conversation_history, 1, Len(conversation_history) - 1)

\* judge.py 46, 98-110: the caller's list after evaluate_conversation;
\* _format_transcript only reads it
evaluate_conversation_history(conversation_history) == conversation_history

\* The exception the try block of the judge ends with, "" when it returns.
TryError(scorer) ==
    IF ~scorer.ok THEN "scorer call failed"
    ELSE LET loaded == JsonLoads(ExtractJson(scorer.text))
         IN  IF ~loaded.ok THEN "JSONDecodeError"
             ELSE IF ~Documents[loaded.doc].object THEN "TypeError"
             ELSE ""

\* Mutant: the except clause catches decoding errors only.
Caught_decodingOnly(err) == err = "JSONDecodeError"

\* judge.py 86: except Exception
Caught(err) == TRUE

\* A call of evaluate_conversation as its caller sees it: it raised, or it
\* returned an evaluation.
JudgeCall(scorer) ==
    IF TryError(scorer) # "" /\ ~Caught(TryError(scorer))
    THEN [called |-> TRUE, raised |-> TRUE, error |-> TryError(scorer),
          evaluation |-> NoEvaluation]
    ELSE [called |-> TRUE, raised |-> FALSE, error |-> "",
          evaluation |-> evaluate_conversation(scorer)]

\* The units a scorer answer is made of.
ScorerUnits == { Fence, Label, Whitespace, "{12}", "[]" }

\* The scorer answers of at most MaxTextLen units.
ScorerTexts == UNION { [1..n -> ScorerUnits] : n \in 0..MaxTextLen }

\* No call of the judge yet.
NoJudged ==
    [called |-> FALSE, raised |-> FALSE, error |-> "", evaluation |-> NoEvaluation]


\* The scorer answers a conversation run may meet.
JudgeResponses ==
    { Raised,
      Said(<< "{12}" >>),
      Said(<< Fence, Label, Whitespace, "{12}", Whitespace, Fence >>),
      Said(<< "{11}" >>),
      Said(<< "junk" >>) }

\* --------------------------------------------------------- result dicts
\* A dict is a record with a field keys, the keys present; the field of an
\* absent key holds a placeholder that is never read.
ResultKeys ==
    {"scenario_id", "personality_id", "conversation_history", "turns",
     "goal_met", "giving_up", "evaluation", "timestamp"}

StubKeys == {"scenario_id", "personality_id", "error", "timestamp"}

\* simulator.py 99-108: the dict a run returns, from its fields
ResultDict(r) ==
    [keys |-> ResultKeys,
     scenario_id |-> r.scenario_id,
     personality_id |-> r.personality_id,
     conversation_history |-> r.conversation_history,
     turns |-> r.turns,
     goal_met |-> r.goal_met,
     giving_up |-> r.giving_up,
     evaluation |-> r.evaluation,
     error |-> ""]

\* simulator.py 146-151: the stub of a run whose call raised
Stub(scenario_id, personality_id, err) ==
    [keys |-> StubKeys,
     scenario_id |-> scenario_id,
     personality_id |-> personality_id,
     conversation_history |-> << >>,
     turns |-> 0,
     goal_met |-> FALSE,
     giving_up |-> FALSE,
     evaluation |-> NoEvaluation,
     error |-> err]

\* -------------------------------------------------------- EvaluationReporter
RECURSIVE SeqSum(_)
SeqSum(s) == IF s = << >> THEN 0 ELSE Head(s) + SeqSum(Tail(s))

\* The distinct values of a sequence, in the order of their first occurrence
\* (the key order of a dict filled while iterating).
RECURSIVE FirstSeen(_)
FirstSeen(s) ==
    IF s = << >> THEN << >>
    ELSE LET rest == FirstSeen(SubSeq(s, 1, Len(s) - 1))
             x    == s[Len(s)]
         IN  IF Contains(rest, x) THEN rest ELSE Append(rest, x)

\* A number n / d, kept as a fraction.
Fraction(n, d) == [num |-> n, den |-> d]

\* reporter.py 106, 107, 148: n / d if d > 0 else 0
Rate(n, d) == IF d > 0 THEN Fraction(n, d) ELSE Fraction(0, 1)

\* Mutant: the hundredths are cut off.
Round2_floor(x) == Fraction((100 * x.num) \div x.den, 100)

\* round(x, 2) of a non-negative fraction, in hundredths, ties to even.
Round2(x) ==
    LET q == (100 * x.num) \div x.den
        r == (100 * x.num) % x.den
    IN  Fraction(IF 2 * r > x.den \/ (2 * r = x.den /\ q % 2 = 1) THEN q + 1 ELSE q,
                 100)

FracLess(a, b) == a.num * b.den < b.num * a.den

\* sorted(..., key = value, reverse = True) on a sequence of [item, key]:
\* descending, equal keys keep their order.
RECURSIVE InsertDesc(_, _)
InsertDesc(sorted, x) ==
    IF sorted = << >> THEN << x >>
    ELSE IF FracLess(Head(sorted).key, x.key) THEN << x >> \o sorted
    ELSE << Head(sorted) >> \o InsertDesc(Tail(sorted), x)

RECURSIVE SortDesc(_)
SortDesc(s) ==
    IF s = << >> THEN << >>
    ELSE InsertDesc(SortDesc(SubSeq(s, 1, Len(s) - 1)), s[Len(s)])

\* Mutant: nothing is cut off.
Take_all(seq, n) == seq

\* seq[:n]
Take(seq, n) == SubSeq(seq, 1, IF Len(seq) < n THEN Len(seq) ELSE n)

\* reporter.py 43-44: "error" in r
IsErrorResult(r) == "error" \in r.keys

\* reporter.py 43
valid_results(rs) == SelectSeq(rs, LAMBDA r : ~IsErrorResult(r))

\* reporter.py 44
error_results(rs) == SelectSeq(rs, LAMBDA r : IsErrorResult(r))

\* r.get("goal_met", False), r.get("giving_up", False), r.get("turns", 0),
\* r.get("evaluation", {})
GetGoalMet(r) == IF "goal_met" \in r.keys THEN r.goal_met ELSE FALSE

GetGivingUp(r) == IF "giving_up" \in r.keys THEN r.giving_up ELSE FALSE

GetTurns(r) == IF "turns" \in r.keys THEN r.turns ELSE 0

GetEvaluation(r) == IF "evaluation" \in r.keys THEN r.evaluation ELSE NoEvaluation

\* Mutant: a run that gave up is counted as well.
goal_met_count_signalled(valid) ==
    Cardinality({ i \in 1..Len(valid) : GetGoalMet(valid[i]) \/ GetGivingUp(valid[i]) })

\* reporter.py 55: the results counted as goal met
goal_met_count(valid) ==
    Cardinality({ i \in 1..Len(valid) : GetGoalMet(valid[i]) })

\* reporter.py 56: the results counted as given up
giving_up_count(valid) ==
    Cardinality({ i \in 1..Len(valid) : GetGivingUp(valid[i]) })

\* reporter.py 59: the sum of the turns
turns_sum(valid) == SeqSum([ i \in 1..Len(valid) |-> GetTurns(valid[i]) ])

\* reporter.py 62-68: category_scores[category], the scores appended for it
category_scores(valid, category) ==
    LET having == SelectSeq(valid, LAMBDA r : category \in GetEvaluation(r).keys)
    IN  [ i \in 1..Len(having) |-> GetEvaluation(having[i]).score[category] ]

\* reporter.py 63-68: the keys of category_scores in the order they entered
\* it: for each result in turn, its categories not seen before
RECURSIVE category_order(_)
category_order(valid) ==
    IF valid = << >> THEN << >>
    ELSE LET before == category_order(SubSeq(valid, 1, Len(valid) - 1))
             e      == GetEvaluation(valid[Len(valid)])
         IN  before \o SelectSeq(FAILURE_CATEGORIES,
                                 LAMBDA c : c \in e.keys /\ ~Contains(before, c))

\* reporter.py 71-73: avg_category_scores as [item, key] in the order of the
\* keys of category_scores
avg_category_scores(valid) ==
    LET entered == category_order(valid)
    IN  [ i \in 1..Len(entered) |->
            LET scores == category_scores(valid, entered[i])
            IN  [item |-> entered[i],
                 key |-> Rate(SeqSum(scores), Len(scores))] ]

\* Mutant: the first five averages, unsorted.
worst_categories_unsorted(avg) == Take(avg, 5)

\* reporter.py 76-80: the five highest averages, highest first
worst_categories(avg) == Take(SortDesc(avg), 5)

\* reporter.py 89-99
top_failure_modes(valid) ==
    LET modes == [ i \in 1..Len(valid) |->
                     LET e == GetEvaluation(valid[i])
                     IN  IF "primary_failure_mode" \in e.keys
                         THEN e.primary_failure_mode ELSE "Unknown" ]
        seen  == FirstSeen(modes)
    IN  Take(SortDesc([ i \in 1..Len(seen) |->
                          [item |-> seen[i],
                           key |-> Fraction(
                               Cardinality({ j \in 1..Len(modes) : modes[j] = seen[i] }),
                               1)] ]),
             10)

\* reporter.py 138-143: the sum of the category scores of one result
total_score(r) ==
    SeqSum([ i \in 1..NumCategories |->
               IF FAILURE_CATEGORIES[i] \in GetEvaluation(r).keys
               THEN GetEvaluation(r).score[FAILURE_CATEGORIES[i]] ELSE 0 ])

\* result.get(dimension, "unknown")
DimensionOf(r, dimension) == IF dimension \in r.keys THEN r[dimension] ELSE "unknown"

\* EvaluationReporter._aggregate_by_dimension: one entry per key, in the
\* order the keys entered dimension_data
aggregate_by_dimension(rs, dimension) ==
    LET keyOf  == [ i \in 1..Len(rs) |-> DimensionOf(rs[i], dimension) ]
        groups == FirstSeen(keyOf)
    IN  [ g \in 1..Len(groups) |->
            LET members == SelectSeq(rs, LAMBDA r : DimensionOf(r, dimension) = groups[g])
                count   == Len(members)
            IN  [key |-> groups[g],
                 count |-> count,
                 goal_met_rate |-> Rate(goal_met_count(members), count),
                 avg_turns |-> IF count > 0
                               THEN Round2(Fraction(turns_sum(members), count))
                               ELSE Fraction(0, 1),
                 avg_total_score |->
                     IF count > 0
                     THEN Round2(Fraction(
                            SeqSum([ i \in 1..count |-> total_score(members[i]) ]),
                            count))
                     ELSE Fraction(0, 1)] ]

\* The summary of a report without one: every summary.get(..., 0) gives 0.
NoSummary ==
    [total_simulations |-> 0, successful_simulations |-> 0,
     failed_simulations |-> 0, goal_met_rate |-> Fraction(0, 1),
     giving_up_rate |-> Fraction(0, 1), avg_conversation_turns |-> Fraction(0, 1)]

\* reporter.py 40, 47: {"error": ...}
ErrorAggregate(err) ==
    [keys |-> {"error"}, error |-> err, summary |-> NoSummary,
     avg_scores_by_category |-> << >>, worst_performing_categories |-> << >>,
     top_failure_modes |-> << >>, scenario_breakdown |-> << >>,
     personality_breakdown |-> << >>]

\* Nothing aggregated yet.
NoAggregate ==
    [keys |-> {}, error |-> "", summary |-> NoSummary,
     avg_scores_by_category |-> << >>, worst_performing_categories |-> << >>,
     top_failure_modes |-> << >>, scenario_breakdown |-> << >>,
     personality_breakdown |-> << >>]

\* Mutant: the rates are taken over the error results.
successful_simulations_errors(rs) == Len(error_results(rs))

\* reporter.py 51
successful_simulations(rs) == Len(valid_results(rs))

\* EvaluationReporter.aggregate_results
aggregate_results(rs) ==
    IF rs = << >> THEN ErrorAggregate("No results to aggregate")
    ELSE IF valid_results(rs) = << >>
    THEN ErrorAggregate("No valid results to aggregate")
    ELSE LET valid == valid_results(rs)
             successful == successful_simulations(rs)
             avg == avg_category_scores(valid)
         IN  [keys |-> {"summary", "failure_analysis", "scenario_breakdown",
                        "personality_breakdown"},
              error |-> "",
              summary |->
                [total_simulations |-> Len(rs),
                 successful_simulations |-> successful,
                 failed_simulations |-> Len(error_results(rs)),
                 goal_met_rate |-> Rate(goal_met_count(valid), successful),
                 giving_up_rate |-> Rate(giving_up_count(valid), successful),
                 avg_conversation_turns |->
                     Round2(Fraction(turns_sum(valid), Len(valid)))],
              avg_scores_by_category |-> avg,
              worst_performing_categories |-> worst_categories(avg),
              top_failure_modes |-> top_failure_modes(valid),
              scenario_breakdown |-> aggregate_by_dimension(valid, "scenario_id"),
              personality_breakdown |->
                  aggregate_by_dimension(valid, "personality_id")]

\* Mutant: aggregated["summary"], a KeyError on an error object.
GetSummary_indexed(agg) ==
    IF "summary" \in agg.keys THEN [ok |-> TRUE, value |-> agg.summary]
    ELSE [ok |-> FALSE, value |-> NoSummary]

\* reporter.py 175-183: aggregated.get("summary", {}) and the .get(..., 0)
\* of its fields
GetSummary(agg) ==
    IF "summary" \in agg.keys THEN [ok |-> TRUE, value |-> agg.summary]
    ELSE [ok |-> TRUE, value |-> NoSummary]

\* reporter.py 204, 213: the breakdown lines, worst average total score first
BreakdownLines(breakdown) ==
    LET sorted == SortDesc([ i \in 1..Len(breakdown) |->
                               [item |-> i, key |-> breakdown[i].avg_total_score] ])
    IN  [ i \in 1..Len(sorted) |-> breakdown[sorted[i].item] ]

\* No report yet.
NoReport ==
    [rendered |-> FALSE, raised |-> FALSE, aggregated |-> NoAggregate,
     summary |-> NoSummary, worst |-> << >>, modes |-> << >>,
     scenarios |-> << >>, personalities |-> << >>]

\* EvaluationReporter.generate_report: the sections of the report text, and
\* the aggregate it was rendered from
generate_report(rs) ==
    LET agg == aggregate_results(rs)
        summary == GetSummary(agg)
    IN  IF ~summary.ok
        THEN [NoReport EXCEPT !.raised = TRUE, !.aggregated = agg]
        ELSE [rendered |-> TRUE,
              raised |-> FALSE,
              aggregated |-> agg,
              summary |-> summary.value,
              worst |-> IF "failure_analysis" \in agg.keys
                        THEN agg.worst_performing_categories ELSE << >>,
              modes |-> IF "failure_analysis" \in agg.keys
                        THEN agg.top_failure_modes ELSE << >>,
              scenarios |-> IF "scenario_breakdown" \in agg.keys
                            THEN BreakdownLines(agg.scenario_breakdown) ELSE << >>,
              personalities |-> IF "personality_breakdown" \in agg.keys
                                THEN BreakdownLines(agg.personality_breakdown)
                                ELSE << >>]

\* -------------------------------------------------- EvaluationOrchestrator
VARIABLES
    pc,                    \* position in run_single_conversation
    scenario,              \* argument: the scenario
    personality,           \* argument: the personality
    arg_max_turns,         \* argument: [given, value]; given = FALSE is None
    max_turns,             \* the local max_turns after line 39
    conversation_history,  \* the transcript, a sequence of [role, content]
    goal_met,
    giving_up,
    turns,
    user_response,         \* the local user_response: the last reply of the user driver
    evaluation,            \* what the judge returned
    scorer_response,       \* the scorer's answer the judge decoded
    failures,              \* generator calls of the drivers that raised
    first_failure,         \* transcript length when a driver first failed, else -1
    driver_view,           \* the caller's transcript as the last driver call left it
    calls,                 \* the calls made so far, in order
    judge_view,            \* the transcript the judge was handed
    messages               \* the list respond built for its generator, last agent turn

\* run_batch_simulations and its callers (app.simulate_batch, run_eval batch)
VARIABLES
    b_pc,                  \* position in the batch
    num_simulations,       \* argument num_simulations
    scenario_ids,          \* request.scenario_ids; << >> is None or an empty list
    personality_ids,       \* request.personality_ids; << >> is None or an empty list
    results,               \* the list results
    sampled,               \* per run: what was sampled and what the calls did
    aggregated,            \* aggregated = reporter.aggregate_results(results)
    report                 \* report = reporter.generate_report(results)

VARIABLES
    request,               \* the request or command line being served
    outcome                \* what the caller of the entry point gets

VARIABLES
    scorer_answer,         \* what messages.create did in a call of the judge
    result_text,           \* the text the judge handed to json.loads
    judged                 \* what the call of the judge came to

VARIABLES
    frames,                \* per concurrent call: the locals of the call
    produced               \* per concurrent call: what the generators answered

ctrlVars == << pc, scenario, personality, arg_max_turns, max_turns,
               conversation_history, goal_met, giving_up, turns, user_response,
               evaluation, scorer_response, failures, first_failure, driver_view,
               calls, judge_view, messages >>

batchVars == << b_pc, num_simulations, scenario_ids, personality_ids, results,
                sampled, aggregated, report >>

svcVars == << request, outcome >>

concVars == << frames, produced >>

judgeVars == << scorer_answer, result_text, judged >>

vars == << ctrlVars, batchVars, svcVars, concVars, judgeVars >>

Append1(history, role, content) ==
    Append(history, [role |-> role, content |-> content])

\* Mutant: the max_turns argument is ignored.
EffectiveMaxTurns_ignored(arg) == DefaultMaxTurns

\* simulator.py 39: max_turns = max_turns or self.max_turns
EffectiveMaxTurns(arg) ==
    IF arg.given /\ arg.value # 0 THEN arg.value ELSE DefaultMaxTurns

\* Mutant: the loop does not stop when the goal is met.
LoopCondition_noGoal(t, m, gm, gu) == t < m /\ ~gu

\* simulator.py 57: the while condition
LoopCondition(t, m, gm, gu) == t < m /\ ~gm /\ ~gu

\* Mutant: the last-turn test is off by one.
LastTurn_late(t, m) == t > m - 1

\* simulator.py 72: if turns >= max_turns - 1: break
LastTurn(t, m) == t >= m - 1

\* Mutant: the counter also counts the agent's reply.
NextTurns_twice(t) == t + 2

\* simulator.py 91: turns += 1
NextTurns(t) == t + 1

\* ------------------------------------------------- a whole run, as a value
\* A script is what the generators and the scorer answer during one run: the
\* k-th call of a generator gets the k-th entry, the last entry for every
\* later call. raises: an exception escapes run_single_conversation.
Nth(seq, k) == seq[IF k < Len(seq) THEN k ELSE Len(seq)]

GoalScript ==
    [opening |-> Said(<< "hello", Whitespace >>),
     agent |-> << Said(<< "reply" >>) >>,
     user |-> << Said(<< "msg", "GOAL_MET" >>) >>,
     scorer |-> Said(<< "{12}" >>),
     raises |-> FALSE]

\* Every call of the agent fails; the user gives up in the third reply.
AgentFailsScript ==
    [opening |-> Raised,
     agent |-> << Raised >>,
     user |-> << Said(<< "msg" >>), Said(<< "msg" >>),
                 Said(<< "msg", "GIVING_UP" >>) >>,
     scorer |-> Said(<< Fence, Label, Whitespace, "{12v}", Whitespace, Fence >>),
     raises |-> FALSE]

\* The user signals both markers in the second reply; the scorer call fails.
JudgeFailsScript ==
    [opening |-> Said(<< "hello", Whitespace >>),
     agent |-> << Said(<< "reply" >>) >>,
     user |-> << Said(<< "msg" >>), Said(<< "msg", "GOAL_MET", "GIVING_UP" >>) >>,
     scorer |-> Raised,
     raises |-> FALSE]

RaisingScript ==
    [opening |-> Said(<< "hello", Whitespace >>),
     agent |-> << Said(<< "reply" >>) >>,
     user |-> << Said(<< "msg" >>) >>,
     scorer |-> Said(<< "{12}" >>),
     raises |-> TRUE]

Scripts ==
    { GoalScript, AgentFailsScript, JudgeFailsScript, RaisingScript }

\* simulator.py 57-91: the loop, from the state at its test
RECURSIVE Conversation(_, _, _, _, _, _)
Conversation(script, m, h, t, gm, gu) ==
    IF ~LoopCondition(t, m, gm, gu)
    THEN [conversation_history |-> h, turns |-> t, goal_met |-> gm, giving_up |-> gu]
    ELSE LET h1 == Append1(h, "assistant", respond(Nth(script.agent, t + 1)).response)
         IN  IF LastTurn(t, m)
             THEN [conversation_history |-> h1, turns |-> t,
                   goal_met |-> gm, giving_up |-> gu]
             ELSE LET ur == generate_response(Nth(script.user, t + 1))
                  IN  Conversation(script, m, Append1(h1, "user", ur.message),
                                   NextTurns(t), ur.goal_met, ur.giving_up)

\* EvaluationOrchestrator.run_single_conversation under a script
run_single_conversation(scn, prs, arg, script) ==
    LET opened == Append1(<< >>, "user",
                          generate_initial_message(prs, scn, script.opening))
        ended  == Conversation(script, EffectiveMaxTurns(arg), opened, 0, FALSE, FALSE)
    IN  [raised |-> script.raises,
         error |-> IF script.raises THEN "KeyError" ELSE "",
         result |-> ResultDict(
            [scenario_id |-> scn.id,
             personality_id |-> prs.id,
             conversation_history |-> ended.conversation_history,
             turns |-> ended.turns,
             goal_met |-> ended.goal_met,
             giving_up |-> ended.giving_up,
             evaluation |-> evaluate_conversation(script.scorer)])]

\* simulator.py 142: the run of every scenario and personality of the
\* catalog under every script, with the orchestrator's own turn limit
BatchRuns ==
    [s \in 1..Len(SCENARIOS), p \in 1..Len(PERSONALITIES), script \in Scripts |->
        run_single_conversation(SCENARIOS[s], PERSONALITIES[p],
                                [given |-> FALSE, value |-> 0], script)]

\* Mutant: a run that raised leaves no entry.
AfterRun_dropsRaised(rs, scn, prs, run) ==
    IF run.raised THEN rs ELSE Append(rs, run.result)

\* simulator.py 141-151: the try / except around one run
AfterRun(rs, scn, prs, run) ==
    IF run.raised THEN Append(rs, Stub(scn.id, prs.id, run.error))
    ELSE Append(rs, run.result)

\* Mutant: the aggregator drops the error results from the caller's list.
aggregate_results_input_filtered(rs) == valid_results(rs)

\* reporter.py 39-117: the caller's list after aggregate_results; the
\* function only reads it
aggregate_results_input(rs) == rs

\* The outcomes of one generator call: it raises only while the model's
\* failure allowance lasts.
Outcomes(texts) ==
    { Said(t) : t \in texts } \cup (IF failures < MaxFailures THEN {Raised} ELSE {})

NoteFailure(llm) ==
    /\ failures' = IF llm.ok THEN failures ELSE failures + 1
    /\ first_failure' = IF ~llm.ok /\ first_failure = -1
                        THEN Len(conversation_history)
                        ELSE first_failure

\* No reply of the user driver yet.
NoResponse ==
    [message |-> << >>, goal_met |-> FALSE, giving_up |-> FALSE, error |-> FALSE]

Budgets ==
    { [given |-> FALSE, value |-> 0] } \cup
    { [given |-> TRUE, value |-> v] : v \in 0..MaxBudget }

\* ------------------------------------------------- service and command line
\* simulator.py 155-206: run_targeted_test; every run of the call is given
\* the same script
run_targeted_test(scenario_id, personality_id, all_personalities, script) ==
    LET scn == Lookup(SCENARIOS, scenario_id)
        prs == IF personality_id # "" THEN Lookup(PERSONALITIES, personality_id)
               ELSE [found |-> TRUE, index |-> 1]
        failed(err) == [raised |-> TRUE, error |-> err, results |-> << >>]
    IN  IF ~scn.found THEN failed("ValueError: Scenario not found")
        ELSE IF all_personalities
        THEN IF script.raises THEN failed("KeyError")
             ELSE [raised |-> FALSE, error |-> "",
                   results |-> [ p \in 1..Len(PERSONALITIES) |->
                                   BatchRuns[scn.index, p, script].result ]]
        ELSE IF ~prs.found THEN failed("ValueError: Personality not found")
        ELSE IF script.raises THEN failed("KeyError")
        ELSE [raised |-> FALSE, error |-> "",
              results |-> << BatchRuns[scn.index, prs.index, script].result >>]

\* The max_turns a request may carry; not given is None.
RequestBudgets ==
    { [given |-> FALSE, value |-> 0], [given |-> TRUE, value |-> 1],
      [given |-> TRUE, value |-> 2] }

NoRequest ==
    [entry |-> "none", scenario_id |-> "", personality_id |-> "",
     all_personalities |-> FALSE, max_turns |-> [given |-> FALSE, value |-> 0],
     script |-> GoalScript]

\* status: what the caller sees. "200", "404", "500" are HTTP statuses;
\* "printed" is a command that printed its results, "not found" one that
\* printed a not-found message and returned, "traceback" one that ended with
\* an unhandled exception; "value" is the return value of a plain call.
Outcome(status, detail, rs) ==
    [status |-> status, detail |-> detail, results |-> rs,
     scenario |-> None, personality |-> None]

NoOutcome == Outcome("none", "", << >>)

Requests(entry, pids, flags, budgets) ==
    { [entry |-> entry, scenario_id |-> sid, personality_id |-> pid,
       all_personalities |-> f, max_turns |-> b, script |-> script] :
        sid \in ScenarioIds, pid \in pids, f \in flags, b \in budgets,
        script \in Scripts }

\* The request was served by a run of the scenario and personality it names.
Served(req, status, raisedStatus) ==
    LET run == run_single_conversation(
                   SCENARIOS[get_scenario(req.scenario_id).index],
                   PERSONALITIES[get_personality(req.personality_id).index],
                   req.max_turns, req.script)
    IN  IF run.raised THEN Outcome(raisedStatus, run.error, << >>)
        ELSE Outcome(status, "", << run.result >>)

SvcInit ==
    /\ request = NoRequest
    /\ outcome = NoOutcome

\* ------------------------------------------- calls running at the same time
\* app.py 29: one orchestrator serves every request; its handlers run on a
\* pool of threads, so calls of run_single_conversation interleave.
Calls == 1..MaxParallel

\* The unit that marks a text as an answer to a prompt of call r.
CallTag(r) == << "call1", "call2", "call3", "call4" >>[r]

Tagged(r, text) == << CallTag(r) >> \o text

\* The max_turns the concurrent calls are given.
ParallelBudgets == { [given |-> TRUE, value |-> 1], [given |-> TRUE, value |-> 2] }

ParallelUserTexts == { << "msg" >>, << "msg", "GOAL_MET" >>, << "msg", "GIVING_UP" >> }

\* The locals of a call that has not begun.
NoFrame ==
    [pc |-> "idle", max_turns |-> DefaultMaxTurns, conversation_history |-> << >>,
     goal_met |-> FALSE, giving_up |-> FALSE, turns |-> 0,
     evaluation |-> NoEvaluation]

\* Mutant: the transcript is one list kept on the orchestrator.
FrameHistory_shared(fs, r) == fs[1].conversation_history

\* simulator.py 40: conversation_history is a local of the call
FrameHistory(fs, r) == fs[r].conversation_history

\* What a generator answered to call r, as the log keeps it.
Answer(role, content, gm, gu) ==
    [role |-> role, content |-> content, goal_met |-> gm, giving_up |-> gu]

ConcInit ==
    /\ frames = [ r \in Calls |-> NoFrame ]
    /\ produced = [ r \in Calls |-> << >> ]

JudgeInit ==
    /\ scorer_answer = Raised
    /\ result_text = << >>
    /\ judged = NoJudged

\* No batch has been asked for.
BatchInit ==
    /\ b_pc = "idle"
    /\ num_simulations = 0
    /\ scenario_ids = << >>
    /\ personality_ids = << >>
    /\ results = << >>
    /\ sampled = << >>
    /\ aggregated = NoAggregate
    /\ report = NoReport

Init ==
    /\ pc = "idle"
    /\ scenario = SCENARIOS[1]
    /\ personality = PERSONALITIES[1]
    /\ arg_max_turns = [given |-> FALSE, value |-> 0]
    /\ max_turns = DefaultMaxTurns
    /\ conversation_history = << >>
    /\ goal_met = FALSE
    /\ giving_up = FALSE
    /\ turns = 0
    /\ user_response = NoResponse
    /\ evaluation = NoEvaluation
    /\ scorer_response = Raised
    /\ failures = 0
    /\ first_failure = -1
    /\ driver_view = << >>
    /\ messages = << >>
    /\ calls = << >>
    /\ judge_view = << >>
    /\ BatchInit
    /\ SvcInit
    /\ ConcInit
    /\ JudgeInit

\* simulator.py 61: the user_message handed to the agent
UserMessageArg ==
    IF turns = 0 THEN conversation_history[1].content
    ELSE conversation_history[Len(conversation_history)].content

\* simulator.py 80: the agent_response handed to the user driver
AgentResponseArg == conversation_history[Len(conversation_history)].content

\* simulator.py 22-41: the call and its first statements
Start ==
    /\ pc = "idle"
    /\ \E s \in 1..Len(SCENARIOS), p \in 1..Len(PERSONALITIES), b \in Budgets :
         /\ scenario' = SCENARIOS[s]
         /\ personality' = PERSONALITIES[p]
         /\ arg_max_turns' = b
         /\ max_turns' = EffectiveMaxTurns(b)
    /\ conversation_history' = << >>
    /\ pc' = "open"
    /\ user_response' = NoResponse
    /\ UNCHANGED << goal_met, giving_up, turns, evaluation, scorer_response,
                    failures, first_failure, driver_view, calls, judge_view,
                    messages >>
    /\ UNCHANGED << batchVars, svcVars, concVars, judgeVars >>

\* simulator.py 43-54: the opening user message
Open ==
    /\ pc = "open"
    /\ \E llm \in Outcomes(OpeningTexts) :
         /\ conversation_history' =
              Append1(conversation_history, "user",
                      generate_initial_message(personality, scenario, llm))
         /\ NoteFailure(llm)
    /\ goal_met' = FALSE
    /\ giving_up' = FALSE
    /\ turns' = 0
    /\ pc' = "loop"
    /\ calls' = Append(calls, "generate_initial_message")
    /\ UNCHANGED << scenario, personality, arg_max_turns, max_turns, user_response,
                    evaluation, scorer_response, driver_view, judge_view, messages >>
    /\ UNCHANGED << batchVars, svcVars, concVars, judgeVars >>

\* simulator.py 57: the loop test
LoopTest ==
    /\ pc = "loop"
    /\ pc' = IF LoopCondition(turns, max_turns, goal_met, giving_up)
             THEN "agent" ELSE "judge"
    /\ UNCHANGED << scenario, personality, arg_max_turns, max_turns,
                    conversation_history, goal_met, giving_up, turns, user_response,
                    evaluation, scorer_response, failures, first_failure,
                    driver_view, calls, judge_view, messages >>
    /\ UNCHANGED << batchVars, svcVars, concVars, judgeVars >>

\* simulator.py 58-73: the agent replies; the last turn breaks out of the loop
AgentTurn ==
    /\ pc = "agent"
    /\ \E llm \in Outcomes(AgentTexts) :
         /\ driver_view' = respond_history(conversation_history, UserMessageArg)
         /\ messages' = respond_messages(conversation_history, UserMessageArg)
         /\ conversation_history' =
              Append1(driver_view', "assistant", respond(llm).response)
         /\ NoteFailure(llm)
    /\ pc' = IF LastTurn(turns, max_turns) THEN "judge" ELSE "user"
    /\ calls' = Append(calls, "respond")
    /\ UNCHANGED << scenario, personality, arg_max_turns, max_turns, goal_met,
                    giving_up, turns, user_response, evaluation, scorer_response,
                    judge_view >>
    /\ UNCHANGED << batchVars, svcVars, concVars, judgeVars >>

\* simulator.py 75-91: the user replies
UserTurn ==
    /\ pc = "user"
    /\ \E llm \in Outcomes(UserTexts) :
         /\ user_response' = generate_response(llm)
         /\ driver_view' =
              generate_response_history(conversation_history, AgentResponseArg)
         /\ conversation_history' =
              Append1(driver_view', "user", user_response'.message)
         /\ goal_met' = user_response'.goal_met
         /\ giving_up' = user_response'.giving_up
         /\ NoteFailure(llm)
    /\ turns' = NextTurns(turns)
    /\ pc' = "loop"
    /\ calls' = Append(calls, "generate_response")
    /\ UNCHANGED << scenario, personality, arg_max_turns, max_turns, evaluation,
                    scorer_response, judge_view, messages >>
    /\ UNCHANGED << batchVars, svcVars, concVars, judgeVars >>

\* simulator.py 93-108: the judge evaluates and the result is returned
Evaluate ==
    /\ pc = "judge"
    /\ \E scorer \in JudgeResponses :
         /\ scorer_response' = scorer
         /\ evaluation' = evaluate_conversation(scorer)
         /\ calls' = Append(calls, "evaluate_conversation") \o ScorerCalls(scorer)
    /\ judge_view' = conversation_history
    /\ conversation_history' = evaluate_conversation_history(conversation_history)
    /\ pc' = "done"
    /\ UNCHANGED << scenario, personality, arg_max_turns, max_turns,
                    goal_met, giving_up, turns, user_response,
                    failures, first_failure, driver_view, messages >>
    /\ UNCHANGED << batchVars, svcVars, concVars, judgeVars >>

Next == Start \/ Open \/ LoopTest \/ AgentTurn \/ UserTurn \/ Evaluate

Spec == Init /\ [][Next]_vars

\* Every statement of run_single_conversation is eventually executed: a call
\* of a generator or of the scorer returns or raises.
SpecLive == Spec /\ WF_vars(Next)

\* app.py 159-165: the entries of the catalog whose id is in the filter, the
\* whole catalog without a filter
Filtered(catalog, ids) ==
    IF ids # << >> THEN SelectSeq(catalog, LAMBDA x : Contains(ids, x.id))
    ELSE catalog

\* simulator.py 129-130: scenarios or SCENARIOS
OrCatalog(list, catalog) == IF list # << >> THEN list ELSE catalog

\* The scenarios and personalities random.choice draws from in a batch.
batch_scenarios(ids) == OrCatalog(Filtered(SCENARIOS, ids), SCENARIOS)

batch_personalities(ids) == OrCatalog(Filtered(PERSONALITIES, ids), PERSONALITIES)

\* The filters of the batch requests tried: none (also the batch command of
\* run_eval.py), one known id each, and an id of no catalog entry on either
\* side.
BatchFilters ==
    { [scenario_ids |-> << >>, personality_ids |-> << >>],
      [scenario_ids |-> << "order_delay" >>, personality_ids |-> << "calm_polite" >>],
      [scenario_ids |-> << "no_such_scenario" >>, personality_ids |-> << "calm_polite" >>],
      [scenario_ids |-> << "order_delay" >>, personality_ids |-> << "no_such_persona" >>] }

\* app.py 153-172, simulator.py 110-132: run_batch_simulations is called
BatchStart ==
    /\ b_pc = "idle"
    /\ \E n \in 0..MaxRuns : num_simulations' = n
    /\ \E f \in BatchFilters :
         /\ scenario_ids' = f.scenario_ids
         /\ personality_ids' = f.personality_ids
    /\ results' = << >>
    /\ sampled' = << >>
    /\ b_pc' = "run"
    /\ UNCHANGED << aggregated, report >>
    /\ UNCHANGED << ctrlVars, svcVars, concVars, judgeVars >>

\* simulator.py 134-151: one iteration of the batch loop
BatchIterate ==
    /\ b_pc = "run"
    /\ Len(sampled) < num_simulations
    /\ \E s \in { i \in 1..Len(SCENARIOS) :
                    Contains(batch_scenarios(scenario_ids), SCENARIOS[i]) },
          p \in { i \in 1..Len(PERSONALITIES) :
                    Contains(batch_personalities(personality_ids), PERSONALITIES[i]) },
          script \in Scripts :
         LET run == BatchRuns[s, p, script]
         IN  /\ sampled' = Append(sampled,
                                  [scenario_id |-> SCENARIOS[s].id,
                                   personality_id |-> PERSONALITIES[p].id,
                                   script |-> script,
                                   raised |-> run.raised,
                                   error |-> run.error])
             /\ results' = AfterRun(results, SCENARIOS[s], PERSONALITIES[p], run)
    /\ UNCHANGED << b_pc, num_simulations, scenario_ids, personality_ids,
                    aggregated, report >>
    /\ UNCHANGED << ctrlVars, svcVars, concVars, judgeVars >>

\* simulator.py 153, app.py 175-185: the batch returns, its results are
\* aggregated, the report is rendered and the response is built
BatchRespond ==
    /\ b_pc = "run"
    /\ Len(sampled) >= num_simulations
    /\ aggregated' = aggregate_results(results)
    /\ report' = generate_report(aggregate_results_input(results))
    /\ results' = aggregate_results_input(aggregate_results_input(results))
    /\ b_pc' = "responded"
    /\ UNCHANGED << num_simulations, scenario_ids, personality_ids, sampled >>
    /\ UNCHANGED << ctrlVars, svcVars, concVars, judgeVars >>

NextBatch == BatchStart \/ BatchIterate \/ BatchRespond

SpecBatch == Init /\ [][NextBatch]_vars

\* scenarios.py 250-263: a caller looks a scenario and a personality up
LookupIds ==
    /\ request = NoRequest
    /\ \E sid \in ScenarioIds \cup PersonalityIds, pid \in ScenarioIds \cup PersonalityIds :
         /\ request' = [NoRequest EXCEPT !.entry = "lookup", !.scenario_id = sid,
                                         !.personality_id = pid]
         /\ outcome' = [Outcome("value", "", << >>) EXCEPT
                           !.scenario = get_scenario(sid),
                           !.personality = get_personality(pid)]
    /\ UNCHANGED << ctrlVars, batchVars, concVars, judgeVars >>

\* app.py 126-150: POST /simulate
ApiSimulate ==
    /\ request = NoRequest
    /\ \E req \in Requests("POST /simulate", PersonalityIds, {FALSE}, RequestBudgets) :
         /\ request' = req
         /\ outcome' =
              IF ~get_scenario(req.scenario_id).found
              THEN Outcome("404", "Scenario not found", << >>)
              ELSE IF ~get_personality(req.personality_id).found
              THEN Outcome("404", "Personality not found", << >>)
              ELSE Served(req, "200", "500")
    /\ UNCHANGED << ctrlVars, batchVars, concVars, judgeVars >>

\* run_eval.py 80-122: the command single
CliSingle ==
    /\ request = NoRequest
    /\ \E req \in Requests("single", PersonalityIds, {FALSE}, RequestBudgets) :
         /\ request' = req
         /\ outcome' =
              IF ~get_scenario(req.scenario_id).found
              THEN Outcome("not found", "Scenario not found", << >>)
              ELSE IF ~get_personality(req.personality_id).found
              THEN Outcome("not found", "Personality not found", << >>)
              ELSE Served(req, "printed", "traceback")
    /\ UNCHANGED << ctrlVars, batchVars, concVars, judgeVars >>

\* run_eval.py 142-168: the command targeted
CliTargeted ==
    /\ request = NoRequest
    /\ \E req \in Requests("targeted", PersonalityIds, BOOLEAN,
                           { [given |-> FALSE, value |-> 0] }) :
         /\ request' = req
         /\ outcome' =
              IF ~get_scenario(req.scenario_id).found
              THEN Outcome("not found", "Scenario not found", << >>)
              ELSE LET personality_id ==
                           IF req.personality_id # "" THEN req.personality_id
                           ELSE PERSONALITIES[1].id
                       test == IF req.all_personalities
                               THEN run_targeted_test(req.scenario_id, "", TRUE,
                                                      req.script)
                               ELSE run_targeted_test(req.scenario_id, personality_id,
                                                      FALSE, req.script)
                   IN  IF test.raised THEN Outcome("traceback", test.error, << >>)
                       ELSE Outcome("printed", "", test.results)
    /\ UNCHANGED << ctrlVars, batchVars, concVars, judgeVars >>

NextService == LookupIds \/ ApiSimulate \/ CliSingle \/ CliTargeted

SpecService == Init /\ [][NextService]_vars

\* simulator.py 22-41, for call r
ConcStart(r) ==
    /\ frames[r].pc = "idle"
    /\ \E b \in ParallelBudgets :
         frames' = [frames EXCEPT ![r] =
                      [NoFrame EXCEPT !.pc = "open",
                                      !.max_turns = EffectiveMaxTurns(b)]]
    /\ UNCHANGED << produced, ctrlVars, batchVars, svcVars, judgeVars >>

\* simulator.py 43-54, for call r
ConcOpen(r) ==
    /\ frames[r].pc = "open"
    /\ LET message == generate_initial_message(PERSONALITIES[1], SCENARIOS[1],
                                               Said(Tagged(r, << "hello" >>)))
       IN  /\ frames' = [frames EXCEPT ![r] =
                          [@ EXCEPT !.conversation_history =
                                        Append1(FrameHistory(frames, r), "user", message),
                                    !.goal_met = FALSE,
                                    !.giving_up = FALSE,
                                    !.turns = 0,
                                    !.pc = "loop"]]
           /\ produced' = [produced EXCEPT ![r] =
                             Append(@, Answer("user", message, FALSE, FALSE))]
    /\ UNCHANGED << ctrlVars, batchVars, svcVars, judgeVars >>

\* simulator.py 57, for call r
ConcLoopTest(r) ==
    /\ frames[r].pc = "loop"
    /\ frames' = [frames EXCEPT ![r].pc =
                    IF LoopCondition(frames[r].turns, frames[r].max_turns,
                                     frames[r].goal_met, frames[r].giving_up)
                    THEN "agent" ELSE "judge"]
    /\ UNCHANGED << produced, ctrlVars, batchVars, svcVars, judgeVars >>

\* simulator.py 58-73, for call r
ConcAgentTurn(r) ==
    /\ frames[r].pc = "agent"
    /\ \E llm \in { Said(Tagged(r, << "reply" >>)), Raised } :
         LET message == respond(llm).response
         IN  /\ frames' = [frames EXCEPT ![r] =
                            [@ EXCEPT !.conversation_history =
                                          Append1(FrameHistory(frames, r),
                                                  "assistant", message),
                                      !.pc = IF LastTurn(frames[r].turns,
                                                         frames[r].max_turns)
                                             THEN "judge" ELSE "user"]]
             /\ produced' = [produced EXCEPT ![r] =
                               Append(@, Answer("assistant", message, FALSE, FALSE))]
    /\ UNCHANGED << ctrlVars, batchVars, svcVars, judgeVars >>

\* simulator.py 75-91, for call r
ConcUserTurn(r) ==
    /\ frames[r].pc = "user"
    /\ \E text \in ParallelUserTexts :
         LET reply == generate_response(Said(Tagged(r, text)))
         IN  /\ frames' = [frames EXCEPT ![r] =
                            [@ EXCEPT !.conversation_history =
                                          Append1(FrameHistory(frames, r),
                                                  "user", reply.message),
                                      !.goal_met = reply.goal_met,
                                      !.giving_up = reply.giving_up,
                                      !.turns = NextTurns(frames[r].turns),
                                      !.pc = "loop"]]
             /\ produced' = [produced EXCEPT ![r] =
                               Append(@, Answer("user", reply.message,
                                                reply.goal_met, reply.giving_up))]
    /\ UNCHANGED << ctrlVars, batchVars, svcVars, judgeVars >>

\* simulator.py 93-108, for call r
ConcEvaluate(r) ==
    /\ frames[r].pc = "judge"
    /\ frames' = [frames EXCEPT ![r] =
                    [@ EXCEPT !.evaluation = evaluate_conversation(Said(<< "{12}" >>)),
                              !.pc = "done"]]
    /\ UNCHANGED << produced, ctrlVars, batchVars, svcVars, judgeVars >>

NextConc ==
    \E r \in Calls :
        \/ ConcStart(r)
        \/ ConcOpen(r)
        \/ ConcLoopTest(r)
        \/ ConcAgentTurn(r)
        \/ ConcUserTurn(r)
        \/ ConcEvaluate(r)

SpecConc == Init /\ [][NextConc]_vars

\* judge.py 51-96: one call of evaluate_conversation
Judge ==
    /\ ~judged.called
    /\ \E scorer \in {Raised} \cup { Said(t) : t \in ScorerTexts } :
         /\ scorer_answer' = scorer
         /\ result_text' = IF scorer.ok THEN ExtractJson(scorer.text) ELSE << >>
         /\ judged' = JudgeCall(scorer)
    /\ UNCHANGED << ctrlVars, batchVars, svcVars, concVars >>

NextJudge == Judge

SpecJudge == Init /\ [][NextJudge]_vars

\* simulator.py 99-108: the dict run_single_conversation returns
RunResult ==
    [scenario_id |-> scenario.id,
     personality_id |-> personality.id,
     conversation_history |-> conversation_history,
     turns |-> turns,
     goal_met |-> goal_met,
     giving_up |-> giving_up,
     evaluation |-> evaluation]

Returned == pc = "done"

\* ------------------------------------------------------------------ claims
AgentMessages(h) == Cardinality({ i \in 1..Len(h) : h[i].role = "assistant" })

UserMessages(h) == Cardinality({ i \in 1..Len(h) : h[i].role = "user" })

LastRole(h) == h[Len(h)].role

\* The turn budget the caller asked for (None asks for the default).
Budget == IF arg_max_turns.given THEN arg_max_turns.value ELSE DefaultMaxTurns

EndedByTurnLimit == ~goal_met /\ ~giving_up

\* The termination states that hold of the returned result.
TerminationStates ==
    (IF RunResult.goal_met THEN {"GOAL_MET"} ELSE {}) \cup
    (IF RunResult.giving_up THEN {"GAVE_UP"} ELSE {}) \cup
    (IF ~RunResult.goal_met /\ ~RunResult.giving_up
     THEN {"TURN_LIMIT_REACHED"} ELSE {})

\* The user driver's last reply had goal_met and giving_up both true.
BothSignalled == user_response.goal_met /\ user_response.giving_up

\* C1: for every budget B >= 1 and whatever the drivers do, the returned
\* transcript has at most B assistant messages, starts with a user message
\* and never has two consecutive messages of the same role.
C1_TranscriptShape ==
    (Returned /\ Budget >= 1) =>
        LET h == RunResult.conversation_history
        IN  /\ AgentMessages(h) <= Budget
            /\ Len(h) >= 1
            /\ h[1].role = "user"
            /\ \A i \in 1..(Len(h) - 1) : h[i].role # h[i + 1].role

C1_Witness ==
    /\ Returned
    /\ Budget = 3
    /\ AgentMessages(conversation_history) = 3
    /\ failures = MaxFailures

\* C2: for every budget B >= 1, the run ended by turn limit (neither flag
\* set in the result) exactly when the transcript has B assistant messages.
C2_TurnLimitIffBudgetUsed ==
    (Returned /\ Budget >= 1) =>
        ((~RunResult.goal_met /\ ~RunResult.giving_up)
            <=> AgentMessages(RunResult.conversation_history) = Budget)

C2_Witness ==
    /\ Returned
    /\ Budget = 2
    /\ EndedByTurnLimit
    /\ AgentMessages(conversation_history) = 2

\* C3: a user reply with goal_met and giving_up both true is classified as
\* GOAL_MET only: exactly one termination state holds of the result and the
\* reporter does not count the run as a give-up.
C3_GoalMetOnly ==
    (Returned /\ BothSignalled) =>
        /\ TerminationStates = {"GOAL_MET"}
        /\ goal_met_count(<< ResultDict(RunResult) >>) = 1
        /\ giving_up_count(<< ResultDict(RunResult) >>) = 0

\* C4: the transcript ends on an assistant message when the run ended by
\* turn limit and on a user message when it ended by goal met or giving up;
\* the user driver is never asked after the budget's last agent reply and
\* the agent is never asked after a reply that signalled the end.
C4_EndsOnTheRightRole ==
    Budget >= 1 =>
        /\ Returned =>
             IF EndedByTurnLimit
             THEN LastRole(conversation_history) = "assistant"
             ELSE LastRole(conversation_history) = "user"
        /\ pc = "user" => AgentMessages(conversation_history) < Budget
        /\ pc = "agent" => ~goal_met /\ ~giving_up

C4_Witness ==
    /\ Returned
    /\ Budget = 3
    /\ giving_up
    /\ ~goal_met
    /\ Len(conversation_history) = 5

\* C5 as claimed: for budget 5 (and any B >= 1) the transcript has an odd
\* number of messages, at most 2*B - 1, whatever the termination state.
C5_OddLength ==
    (Returned /\ Budget >= 1) =>
        /\ Len(conversation_history) % 2 = 1
        /\ Len(conversation_history) <= 2 * Budget - 1

\* C5 amended: the transcript has an odd number of messages, at most
\* 2*B - 1, when the run ended by goal met or giving up, and exactly 2*B
\* messages when it ended by turn limit.
C5_LengthByTermination ==
    (Returned /\ Budget >= 1) =>
        IF EndedByTurnLimit
        THEN Len(conversation_history) = 2 * Budget
        ELSE /\ Len(conversation_history) % 2 = 1
             /\ Len(conversation_history) <= 2 * Budget - 1

C5_Witness ==
    /\ Returned
    /\ scenario.id = "order_delay"
    /\ personality.id = "frustrated_impatient"
    /\ Budget = 5
    /\ EndedByTurnLimit
    /\ Len(conversation_history) = 10

C7_SmallBudgets ==
    (Returned /\ arg_max_turns.given) =>
        /\ arg_max_turns.value = 0 =>
             /\ Len(conversation_history) = 1
             /\ AgentMessages(conversation_history) = 0
        /\ arg_max_turns.value = 1 =>
             /\ Len(conversation_history) = 2
             /\ AgentMessages(conversation_history) = 1

\* C8: when a driver fails, the result carries an error report as its
\* evaluation and the transcript holds exactly the messages produced before
\* the failure.
C8_DriverFailureContained ==
    (Returned /\ first_failure # -1) =>
        /\ "error" \in RunResult.evaluation.keys
        /\ Len(RunResult.conversation_history) = first_failure

\* The scorer's answer was malformed: the call raised or no document decodes.
ScorerMalformed ==
    \/ ~scorer_response.ok
    \/ ~JsonLoads(ExtractJson(scorer_response.text)).ok

\* The scorer's answer decodes to an object lacking a category.
ScorerPartial ==
    /\ scorer_response.ok
    /\ LET loaded == JsonLoads(ExtractJson(scorer_response.text))
       IN  /\ loaded.ok
           /\ Documents[loaded.doc].object
           /\ Documents[loaded.doc].ncat < NumCategories

\* C9: on a malformed scorer answer the judge returns an error report with
\* all 12 category keys, each with score 5 and confidence 0.0.
C9_FallbackHasAllCategories ==
    (Returned /\ ScorerMalformed) =>
        /\ "error" \in evaluation.keys
        /\ Categories \subseteq evaluation.keys
        /\ \A c \in Categories :
             /\ c \in DOMAIN evaluation.score
             /\ evaluation.score[c] = 5
             /\ evaluation.confidence[c] = 0

\* C10: an answer that decodes but lacks a required category is a parse
\* error: an error report is returned, never a valid report.
C10_PartialReportIsError ==
    (Returned /\ ScorerPartial) => "error" \in evaluation.keys

\* ----------------------------------------------------- claims on batches
Responded == b_pc = "responded"

HasSummary == "summary" \in aggregated.keys

\* The evaluation reports on every category.
HasAllCategories(e) == Categories \subseteq e.keys

\* The evaluation is an error report.
IsErrorReport(e) == "error" \in e.keys

\* The results whose evaluation is present and reports on every category.
WithFullEvaluation(rs) ==
    { i \in 1..Len(rs) :
        "evaluation" \in rs[i].keys /\ HasAllCategories(rs[i].evaluation) }

\* C11: a result is counted as successful exactly when its evaluation has
\* all 12 category keys; a result with a fallback evaluation or without an
\* evaluation is counted in failed_simulations.
C11_ValidIffAllCategories ==
    (Responded /\ HasSummary) =>
        /\ aggregated.summary.successful_simulations =
             Cardinality(WithFullEvaluation(results))
        /\ aggregated.summary.failed_simulations =
             Len(results) - Cardinality(WithFullEvaluation(results))

InUnit(x) == x.den > 0 /\ 0 <= x.num /\ x.num <= x.den

\* C12: every rate of the aggregate (goal_met_rate and giving_up_rate of the
\* summary, goal_met_rate of every scenario and of every personality) lies
\* in [0, 1], and without valid results the rates are reported as 0.
C12_RatesInUnitInterval ==
    Responded =>
        /\ HasSummary =>
             /\ InUnit(aggregated.summary.goal_met_rate)
             /\ InUnit(aggregated.summary.giving_up_rate)
             /\ \A i \in 1..Len(aggregated.scenario_breakdown) :
                  InUnit(aggregated.scenario_breakdown[i].goal_met_rate)
             /\ \A i \in 1..Len(aggregated.personality_breakdown) :
                  InUnit(aggregated.personality_breakdown[i].goal_met_rate)
        /\ ~HasSummary =>
             /\ report.summary.goal_met_rate.num = 0
             /\ report.summary.giving_up_rate.num = 0

C12_Witness ==
    /\ Responded
    /\ HasSummary
    /\ aggregated.summary.failed_simulations = 1
    /\ aggregated.summary.goal_met_rate = Fraction(2, 2)
    /\ aggregated.summary.giving_up_rate = Fraction(0, 2)
    /\ Len(aggregated.scenario_breakdown) = 2

AllErrorResults(rs) == \A i \in 1..Len(rs) : IsErrorResult(rs[i])

\* C13: for an empty list and for a list of error results only,
\* aggregate_results returns an error object and generate_report still
\* renders a report.
C13_DegenerateInput ==
    (Responded /\ AllErrorResults(results)) =>
        /\ aggregated.keys = {"error"}
        /\ aggregated.error # ""
        /\ report.rendered
        /\ ~report.raised

C13_Witness ==
    /\ Responded
    /\ Len(results) = 2
    /\ AllErrorResults(results)
    /\ aggregated = ErrorAggregate("No valid results to aggregate")
    /\ report.rendered

C15_BatchReturnsEveryRun ==
    /\ Len(results) = Len(sampled)
    /\ Responded => Len(results) = num_simulations
    /\ \A i \in 1..Len(sampled) :
         /\ i <= Len(results)
         /\ results[i].scenario_id = sampled[i].scenario_id
         /\ results[i].personality_id = sampled[i].personality_id
         /\ sampled[i].raised =>
              /\ results[i].keys = StubKeys
              /\ results[i].error = sampled[i].error
         /\ ~sampled[i].raised =>
              /\ results[i].keys = ResultKeys
              /\ results[i].conversation_history # << >>

C15_Witness ==
    /\ Responded
    /\ num_simulations = 3
    /\ sampled[1].raised
    /\ ~sampled[2].raised
    /\ results[1].keys = StubKeys
    /\ results[3].keys = ResultKeys

\* Exactly one run of the batch had an agent whose every call failed; the
\* other runs met their goal without a failure.
OneAgentFailure ==
    /\ Cardinality({ i \in 1..Len(sampled) : sampled[i].script = AgentFailsScript }) = 1
    /\ \A i \in 1..Len(sampled) : sampled[i].script \in {AgentFailsScript, GoalScript}

\* C16: in a batch of N runs of which exactly one has an agent that always
\* fails, the results have length N, exactly one evaluation is an error
\* report and successful_simulations is N - 1.
C16_OneFailedRun ==
    (Responded /\ OneAgentFailure) =>
        /\ Len(results) = num_simulations
        /\ Cardinality({ i \in 1..Len(results) :
                           IsErrorReport(GetEvaluation(results[i])) }) = 1
        /\ aggregated.summary.successful_simulations = num_simulations - 1

Known(catalog, id) == \E i \in 1..Len(catalog) : catalog[i].id = id

\* C17: a lookup of an id of the catalog returns the entry with that id, a
\* lookup of any other id returns None.
C17_LookupFindsOrNone ==
    request.entry = "lookup" =>
        /\ IF Known(SCENARIOS, request.scenario_id)
           THEN /\ outcome.scenario.found
                /\ outcome.scenario.index \in 1..Len(SCENARIOS)
                /\ SCENARIOS[outcome.scenario.index].id = request.scenario_id
           ELSE outcome.scenario = None
        /\ IF Known(PERSONALITIES, request.personality_id)
           THEN /\ outcome.personality.found
                /\ outcome.personality.index \in 1..Len(PERSONALITIES)
                /\ PERSONALITIES[outcome.personality.index].id = request.personality_id
           ELSE outcome.personality = None

C17_Witness ==
    /\ request.entry = "lookup"
    /\ request.scenario_id = "no_order_id"
    /\ outcome.scenario = [found |-> TRUE, index |-> 2]
    /\ request.personality_id = "nope"
    /\ outcome.personality = None

\* The request names a scenario or a personality the catalog does not have.
UnknownId ==
    /\ request.entry \in {"POST /simulate", "single", "targeted"}
    /\ \/ ~Known(SCENARIOS, request.scenario_id)
       \/ /\ request.personality_id # ""
          /\ ~request.all_personalities
          /\ ~Known(PERSONALITIES, request.personality_id)

\* C18: a request or command that names an unknown scenario or personality
\* gets a not-found answer (404, or a not-found message), never an unhandled
\* exception or a 500.
C18_UnknownIdIsNotFound ==
    UnknownId => outcome.status \in {"404", "not found"}

\* ------------------------------------------------ claims on concurrent calls
UserReplies(log) == { i \in 2..Len(log) : log[i].role = "user" }

\* The last answer of the user generator in the log.
LastUserAnswer(log) ==
    log[CHOOSE i \in 1..Len(log) :
          /\ log[i].role = "user"
          /\ \A j \in (i + 1)..Len(log) : log[j].role # "user"]

\* C20: with calls interleaved on one orchestrator, the transcript of each
\* call holds exactly the messages produced for that call, in their order,
\* and its turn counter and flags follow from that call's replies alone.
C20_CallsAreIsolated ==
    \A r \in Calls :
        LET h   == frames[r].conversation_history
            log == produced[r]
        IN  /\ Len(h) = Len(log)
            /\ \A i \in 1..Len(h) :
                 /\ h[i] = [role |-> log[i].role, content |-> log[i].content]
                 /\ h[i].content[1] = CallTag(r) \/ h[i].role = "assistant"
            /\ \A i \in 1..Len(h) : \A q \in Calls \ {r} :
                 ~Contains(h[i].content, CallTag(q))
            /\ frames[r].pc \in {"loop", "agent", "user", "judge", "done"} =>
                 /\ frames[r].turns = Cardinality(UserReplies(log))
                 /\ frames[r].goal_met = LastUserAnswer(log).goal_met
                 /\ frames[r].giving_up = LastUserAnswer(log).giving_up

C20_Witness ==
    /\ frames[1].pc = "done"
    /\ frames[2].pc = "user"
    /\ Len(frames[1].conversation_history) = 3
    /\ Len(frames[2].conversation_history) = 2
    /\ frames[1].turns = 1
    /\ frames[2].turns = 0
    /\ frames[1].goal_met
    /\ ~frames[2].goal_met

\* ------------------------------------------------- claims on the call order
CallsOf(name) == { i \in 1..Len(calls) : calls[i] = name }

\* C21: the opening call of the user driver comes first and once; then the
\* calls of the agent and of the user driver alternate, the agent first; the
\* judge is called once, after them, in every returned run, and makes one
\* call of the scorer.
C21_CallOrder ==
    LET n == Len(calls)
    IN  /\ CallsOf("generate_initial_message") = (IF n >= 1 THEN {1} ELSE {})
        /\ \A i \in 2..n :
             calls[i] \in {"respond", "generate_response"} =>
                 calls[i] = (IF i % 2 = 0 THEN "respond" ELSE "generate_response")
        /\ \A i \in CallsOf("evaluate_conversation") :
             /\ i = n - 1
             /\ i >= 2
             /\ pc = "done"
        /\ \A i \in CallsOf("messages.create") :
             /\ i = n
             /\ calls[i - 1] = "evaluate_conversation"
        /\ \A i \in 2..n :
             calls[i] \in {"respond", "generate_response", "evaluate_conversation",
                           "messages.create"}
        /\ Returned =>
             /\ Cardinality(CallsOf("evaluate_conversation")) = 1
             /\ Cardinality(CallsOf("messages.create")) = 1

C21_Witness ==
    /\ Returned
    /\ ~scorer_response.ok
    /\ calls = << "generate_initial_message", "respond", "generate_response",
                  "respond", "evaluate_conversation", "messages.create" >>

\* C22: a step of the run appends one message to the transcript and leaves
\* the earlier messages as they are, and the transcript of the result is the
\* one the judge was handed.
C22_AppendOnly ==
    [][ /\ pc \in {"open", "agent", "user"} =>
             /\ Len(conversation_history') = Len(conversation_history) + 1
             /\ SubSeq(conversation_history', 1, Len(conversation_history))
                  = conversation_history
        /\ pc \notin {"open", "agent", "user"} =>
             conversation_history' = conversation_history
        /\ pc' = "done" => RunResult'.conversation_history = judge_view' ]_vars

C22_Witness ==
    /\ Returned
    /\ failures = 1
    /\ Len(judge_view) = 5
    /\ RunResult.conversation_history = judge_view

\* C23: for every budget B >= 1 a run makes at most B calls of the agent and
\* at most B - 1 calls of the user driver after the opening, and returns its
\* result.
C23_RunTerminates ==
    /\ [](Budget >= 1 =>
            /\ Cardinality(CallsOf("respond")) <= Budget
            /\ Cardinality(CallsOf("generate_response")) <= Budget - 1)
    /\ (pc = "open" /\ Budget >= 1) ~> Returned

C23_Witness ==
    /\ Returned
    /\ Budget = 3
    /\ EndedByTurnLimit
    /\ Cardinality(CallsOf("respond")) = 3
    /\ Cardinality(CallsOf("generate_response")) = 2

\* -------------------------------------------------------- claims on the judge
LabeledFences(text) ==
    { i \in 1..(Len(text) - 1) : text[i] = Fence /\ text[i + 1] = Label }

FencesAfter(text, k) == { j \in (k + 1)..Len(text) : text[j] = Fence }

Least(S) == CHOOSE i \in S : \A j \in S : i <= j

\* The units after position i and before position j.
Between(text, i, j) == SubSeq(text, i + 1, j - 1)

\* C24: with a labeled fence in the answer the judge decodes what lies
\* between the first labeled fence and the next fence; otherwise, with any
\* fence, what lies between the first fence and the next fence; otherwise the
\* whole answer.
C24_DetectionOrder ==
    (judged.called /\ scorer_answer.ok) =>
        LET text == scorer_answer.text
        IN  IF LabeledFences(text) # {}
            THEN LET open == Least(LabeledFences(text)) + 1
                 IN  FencesAfter(text, open) # {} =>
                         Strip(result_text) =
                             Strip(Between(text, open, Least(FencesAfter(text, open))))
            ELSE IF FencesAfter(text, 0) # {}
            THEN LET open == Least(FencesAfter(text, 0))
                 IN  FencesAfter(text, open) # {} =>
                         Strip(result_text) =
                             Strip(Between(text, open, Least(FencesAfter(text, open))))
            ELSE result_text = text

C24_Witness ==
    /\ judged.called
    /\ scorer_answer = Said(<< Fence, Fence, Label, "{12}", Fence >>)
    /\ result_text = << "{12}" >>
    /\ ~judged.raised
    /\ "error" \notin judged.evaluation.keys

\* The scorer call failed, or its answer does not decode, or it decodes to
\* something that is not an object.
ScorerFailed ==
    \/ ~scorer_answer.ok
    \/ ~JsonLoads(result_text).ok
    \/ ~Documents[JsonLoads(result_text).doc].object

\* C25: evaluate_conversation raises nothing the scorer caused: for a failed
\* scorer call, an answer that does not decode and an answer that decodes to
\* a non-object it returns an error report with the error text.
C25_JudgeContainsScorerErrors ==
    (judged.called /\ ScorerFailed) =>
        /\ ~judged.raised
        /\ "error" \in judged.evaluation.keys
        /\ judged.evaluation.error # ""

C25_Witness ==
    /\ judged.called
    /\ scorer_answer = Said(<< Fence, Label, "[]", Fence >>)
    /\ result_text = << "[]" >>
    /\ ~judged.raised
    /\ judged.evaluation.error = "TypeError"

\* --------------------------------------------------- claims on the aggregate
\* The positions of the results without the key error.
Valid == { i \in 1..Len(results) : "error" \notin results[i].keys }

\* The sum of x[i] over the positions i of S.
SumOver(S, x) == SeqSum([ i \in 1..Len(x) |-> IF i \in S THEN x[i] ELSE 0 ])

\* The fraction f is n / d.
IsQuotient(f, n, d) == f.den > 0 /\ d > 0 /\ f.num * d = n * f.den

\* C26: in the summary total_simulations = successful_simulations +
\* failed_simulations = the number of results, and goal_met_rate and
\* giving_up_rate are the valid results with goal met / giving up over the
\* valid results.
C26_SummaryCounts ==
    (Responded /\ HasSummary) =>
        LET summary == aggregated.summary
        IN  /\ summary.total_simulations = Len(results)
            /\ summary.total_simulations =
                 summary.successful_simulations + summary.failed_simulations
            /\ summary.successful_simulations = Cardinality(Valid)
            /\ IsQuotient(summary.goal_met_rate,
                          Cardinality({ i \in Valid : results[i].goal_met }),
                          Cardinality(Valid))
            /\ IsQuotient(summary.giving_up_rate,
                          Cardinality({ i \in Valid : results[i].giving_up }),
                          Cardinality(Valid))

C26_Witness ==
    /\ Responded
    /\ Len(results) = 3
    /\ Cardinality(Valid) = 2
    /\ aggregated.summary.failed_simulations = 1
    /\ aggregated.summary.goal_met_rate = Fraction(1, 2)
    /\ aggregated.summary.giving_up_rate = Fraction(1, 2)
    /\ \E i \in Valid : results[i].goal_met /\ ~results[i].giving_up

\* The valid results whose evaluation has the category.
Having(c) == { i \in Valid : c \in results[i].evaluation.keys }

ScoreSum(c) ==
    SumOver(Having(c),
            [ i \in 1..Len(results) |->
                IF i \in Having(c) THEN results[i].evaluation.score[c] ELSE 0 ])

Items(list) == { list[k].item : k \in 1..Len(list) }

\* C27: the average of a category is the mean of its score over the valid
\* results whose evaluation has it; worst_performing_categories lists at most
\* 5 categories, highest mean first, and no category left out has a higher
\* mean than a listed one.
C27_CategoryMeans ==
    (Responded /\ HasSummary) =>
        LET avg   == aggregated.avg_scores_by_category
            worst == aggregated.worst_performing_categories
        IN  /\ Items(avg) = { c \in Categories : Having(c) # {} }
            /\ Cardinality(Items(avg)) = Len(avg)
            /\ \A k \in 1..Len(avg) :
                 IsQuotient(avg[k].key, ScoreSum(avg[k].item),
                            Cardinality(Having(avg[k].item)))
            /\ Len(worst) = (IF Len(avg) < 5 THEN Len(avg) ELSE 5)
            /\ Cardinality(Items(worst)) = Len(worst)
            /\ \A k \in 1..Len(worst) : \E j \in 1..Len(avg) : avg[j] = worst[k]
            /\ \A k \in 1..(Len(worst) - 1) : ~FracLess(worst[k].key, worst[k + 1].key)
            /\ \A j \in 1..Len(avg) :
                 avg[j].item \notin Items(worst) =>
                     \A k \in 1..Len(worst) : ~FracLess(worst[k].key, avg[j].key)

C27_Witness ==
    /\ Responded
    /\ Cardinality(Valid) = 3
    /\ Cardinality(Having("temporal_failures")) = 2
    /\ Len(aggregated.avg_scores_by_category) = 12
    /\ Len(aggregated.worst_performing_categories) = 5
    /\ aggregated.worst_performing_categories[1] =
         [item |-> "task_execution_failures", key |-> Fraction(7, 2)]
    /\ aggregated.worst_performing_categories[5] =
         [item |-> "technical_failures", key |-> Fraction(8, 3)]

Abs(x) == IF x < 0 THEN -x ELSE x

\* The fraction f is n / d rounded to hundredths.
IsRoundedQuotient(f, n, d) ==
    f.den = 100 /\ d > 0 /\ 2 * Abs(f.num * d - 100 * n) <= d

\* The sum of the scores of the categories in the evaluation of result i.
TotalScore(i) ==
    SeqSum([ k \in 1..NumCategories |->
               IF FAILURE_CATEGORIES[k] \in results[i].evaluation.keys
               THEN results[i].evaluation.score[FAILURE_CATEGORIES[k]] ELSE 0 ])

\* The breakdown groups the valid results by the dimension: one group per
\* key, with its count, its goal-met rate and its two means, exact or rounded
\* to hundredths.
GroupsAgree(breakdown, dimension, exact) ==
    /\ { breakdown[g].key : g \in 1..Len(breakdown) } =
         { results[i][dimension] : i \in Valid }
    /\ Len(breakdown) = Cardinality({ results[i][dimension] : i \in Valid })
    /\ SeqSum([ g \in 1..Len(breakdown) |-> breakdown[g].count ]) = Cardinality(Valid)
    /\ \A g \in 1..Len(breakdown) :
         LET members == { i \in Valid : results[i][dimension] = breakdown[g].key }
             n       == Cardinality(members)
             tsum    == SumOver(members, [ i \in 1..Len(results) |-> results[i].turns ])
             ssum    == SumOver(members, [ i \in 1..Len(results) |->
                                             IF i \in Valid THEN TotalScore(i) ELSE 0 ])
         IN  /\ breakdown[g].count = n
             /\ IsQuotient(breakdown[g].goal_met_rate,
                           Cardinality({ i \in members : results[i].goal_met }), n)
             /\ IF exact
                THEN /\ IsQuotient(breakdown[g].avg_turns, tsum, n)
                     /\ IsQuotient(breakdown[g].avg_total_score, ssum, n)
                ELSE /\ IsRoundedQuotient(breakdown[g].avg_turns, tsum, n)
                     /\ IsRoundedQuotient(breakdown[g].avg_total_score, ssum, n)

\* C29: each group of the scenario and personality breakdowns reports its
\* count, its goal-met rate, its mean turns and the mean of its results'
\* summed category scores; the counts sum to the number of valid results.
C29_GroupMeans ==
    (Responded /\ HasSummary) =>
        /\ GroupsAgree(aggregated.scenario_breakdown, "scenario_id", TRUE)
        /\ GroupsAgree(aggregated.personality_breakdown, "personality_id", TRUE)

\* C29, amended: as C29 with the mean turns and the mean summed score each
\* rounded to two decimals.
C29_GroupMeansRounded ==
    (Responded /\ HasSummary) =>
        /\ GroupsAgree(aggregated.scenario_breakdown, "scenario_id", FALSE)
        /\ GroupsAgree(aggregated.personality_breakdown, "personality_id", FALSE)

C29_Witness ==
    /\ Responded
    /\ Cardinality(Valid) = 3
    /\ Len(aggregated.scenario_breakdown) = 1
    /\ Len(aggregated.personality_breakdown) = 2
    /\ aggregated.scenario_breakdown[1].count = 3
    /\ aggregated.scenario_breakdown[1].avg_turns = Fraction(133, 100)
    /\ aggregated.scenario_breakdown[1].avg_total_score = Fraction(1767, 100)

\* C30: in every run result 0 <= turns <= B - 1, turns is the number of user
\* messages after the opening, the agent messages number turns or turns + 1,
\* and the transcript has 1 + turns + (agent messages) messages.
C30_TurnsInvariants ==
    Returned =>
        LET h == RunResult.conversation_history
        IN  /\ 0 <= RunResult.turns
            /\ RunResult.turns <= Budget - 1
            /\ RunResult.turns = UserMessages(h) - 1
            /\ AgentMessages(h) \in { RunResult.turns, RunResult.turns + 1 }
            /\ Len(h) = 1 + RunResult.turns + AgentMessages(h)

\* C30, amended: the bound turns <= B - 1 for budgets B >= 1 (10 when none
\* is given); the other three for every run result.
C30_TurnsInvariantsFromOne ==
    Returned =>
        LET h == RunResult.conversation_history
        IN  /\ 0 <= RunResult.turns
            /\ Budget >= 1 => RunResult.turns <= Budget - 1
            /\ RunResult.turns = UserMessages(h) - 1
            /\ AgentMessages(h) \in { RunResult.turns, RunResult.turns + 1 }
            /\ Len(h) = 1 + RunResult.turns + AgentMessages(h)

C30_Witness ==
    /\ Returned
    /\ Budget = 3
    /\ RunResult.turns = 2
    /\ AgentMessages(RunResult.conversation_history) = 3
    /\ Len(RunResult.conversation_history) = 6

\* ------------------------------------------- the aggregator called directly
\* Values of primary_failure_mode, some differing in case or spacing only.
ModeNames ==
    << "Comprehension", "comprehension", "Comprehension ", "Escalation",
       "Safety", "Knowledge", "Temporal", "Emotional", "Execution",
       "Technical", "Policy", "Tone", "Billing", "Unknown" >>

ModeAt(j) == ModeNames[((j - 1) % Len(ModeNames)) + 1]

\* A result of the given kind: the stub of a failed run, a run result whose
\* evaluation lacks primary_failure_mode, or one with the kind as its mode.
GivenResult(kind) ==
    IF kind = "stub"
    THEN Stub(SCENARIOS[1].id, PERSONALITIES[1].id, "run failed")
    ELSE ResultDict(
           [scenario_id |-> SCENARIOS[1].id,
            personality_id |-> PERSONALITIES[1].id,
            conversation_history |-> << >>,
            turns |-> 1,
            goal_met |-> FALSE,
            giving_up |-> FALSE,
            evaluation |->
                IF kind = "absent"
                THEN [DocEvaluation("{12}") EXCEPT
                        !.keys = @ \ {"primary_failure_mode"},
                        !.primary_failure_mode = ""]
                ELSE [DocEvaluation("{12}") EXCEPT !.primary_failure_mode = kind]])

ShortKinds == {"Comprehension", "comprehension", "absent", "stub"}

Shapes == 1..7

\* The kind of the j-th result of a long list of the given shape.
ShapeKind(shape, j) ==
    CASE shape = 1 -> ModeAt(j)
      [] shape = 2 -> ModeAt(((j - 1) % 3) + 1)
      [] shape = 3 -> ModeAt(((j - 1) \div 2) + 1)
      [] shape = 4 -> ModeAt(MaxListLen + 2 - j)
      [] shape = 5 -> IF j % 4 = 0 THEN "stub" ELSE ModeAt(j)
      [] shape = 6 -> ModeAt(((j * j) % 11) + 1)
      [] shape = 7 -> ModeAt(IF j <= 11 THEN j ELSE j - 10)

\* The lists the aggregator is given: every list of up to MaxShortLen results
\* of the short kinds, and the lists of up to MaxListLen results of each shape.
GivenLists ==
    { [ j \in 1..Len(kinds) |-> GivenResult(kinds[j]) ] :
        kinds \in UNION { [1..n -> ShortKinds] : n \in 0..MaxShortLen } }
    \cup
    { [ j \in 1..n |-> GivenResult(ShapeKind(shape, j)) ] :
        n \in 0..MaxListLen, shape \in Shapes }

\* reporter.py 29: aggregate_results is called with a list of results
Give ==
    /\ b_pc = "idle"
    /\ \E rs \in GivenLists : results' = rs
    /\ b_pc' = "given"
    /\ UNCHANGED << num_simulations, scenario_ids, personality_ids, sampled,
                    aggregated, report >>
    /\ UNCHANGED << ctrlVars, svcVars, concVars, judgeVars >>

\* reporter.py 39-117: aggregate_results returns
Aggregate ==
    /\ b_pc = "given"
    /\ aggregated' = aggregate_results(results)
    /\ b_pc' = "aggregated"
    /\ UNCHANGED << num_simulations, scenario_ids, personality_ids, results,
                    sampled, report >>
    /\ UNCHANGED << ctrlVars, svcVars, concVars, judgeVars >>

NextAggregate == Give \/ Aggregate

SpecAggregate == Init /\ [][NextAggregate]_vars

Aggregated == b_pc = "aggregated"

\* reporter.py 91-92: the mode tallied for result i
ModeOf(i) ==
    IF "primary_failure_mode" \in results[i].evaluation.keys
    THEN results[i].evaluation.primary_failure_mode ELSE "Unknown"

Modes == { ModeOf(i) : i \in Valid }

ModeCount(m) == Cardinality({ i \in Valid : ModeOf(i) = m })

\* The position of the first valid result with mode m.
FirstOf(m) ==
    CHOOSE i \in Valid :
        ModeOf(i) = m /\ \A j \in Valid : ModeOf(j) = m => i <= j

\* Mode m ranks before mode n: more results, or as many and seen first.
RanksBefore(m, n) ==
    \/ ModeCount(m) > ModeCount(n)
    \/ ModeCount(m) = ModeCount(n) /\ FirstOf(m) < FirstOf(n)

\* C28: top_failure_modes tallies the primary_failure_mode strings of the
\* valid results verbatim; it lists at most 10 modes, each with its count,
\* by descending count and, among equal counts, in the order of first
\* occurrence; when nothing is cut off the counts sum to the number of valid
\* results.
C28_TopFailureModes ==
    (Aggregated /\ HasSummary) =>
        LET top == aggregated.top_failure_modes
        IN  /\ Len(top) = (IF Cardinality(Modes) < 10 THEN Cardinality(Modes) ELSE 10)
            /\ Items(top) \subseteq Modes
            /\ Cardinality(Items(top)) = Len(top)
            /\ \A k \in 1..Len(top) : top[k].key = Fraction(ModeCount(top[k].item), 1)
            /\ \A k \in 1..Len(top) : \A l \in (k + 1)..Len(top) :
                 RanksBefore(top[k].item, top[l].item)
            /\ \A m \in Modes \ Items(top) :
                 \A k \in 1..Len(top) : RanksBefore(top[k].item, m)
            /\ Cardinality(Modes) <= 10 =>
                 SeqSum([ k \in 1..Len(top) |-> top[k].key.num ]) = Cardinality(Valid)

C28_Witness ==
    /\ Aggregated
    /\ Len(results) = 12
    /\ Cardinality(Modes) = 11
    /\ Len(aggregated.top_failure_modes) = 10
    /\ aggregated.top_failure_modes[1] = [item |-> "comprehension", key |-> Fraction(2, 1)]
    /\ aggregated.top_failure_modes[2] = [item |-> "Comprehension", key |-> Fraction(1, 1)]
    /\ aggregated.top_failure_modes[3] = [item |-> "Comprehension ", key |-> Fraction(1, 1)]
    /\ aggregated.top_failure_modes[10].item = "Technical"
    /\ "Policy" \notin Items(aggregated.top_failure_modes)

\* ------------------------------------------------ claims on the two signals
\* C31: in the summary goal_met_rate + giving_up_rate <= 1: no valid result
\* is counted both as goal met and as given up.
C31_RatesSumAtMostOne ==
    (Responded /\ HasSummary) =>
        LET gm == aggregated.summary.goal_met_rate
            gu == aggregated.summary.giving_up_rate
        IN  /\ gm.num * gu.den + gu.num * gm.den <= gm.den * gu.den
            /\ \A i \in Valid : ~(results[i].goal_met /\ results[i].giving_up)

\* user_agent.py 98-104: every reply of the user driver after the opening is
\* the fallback of a failed generation call.
EveryUserReplyFailed ==
    \A i \in 2..Len(conversation_history) :
        conversation_history[i].role = "user" =>
            conversation_history[i].content = << "I need help with my issue." >>

\* C32: a failed generation call of the user driver gives the fallback message
\* with goal_met and giving_up false; when every such call fails, a run with
\* budget B >= 1 ends by turn limit with B agent messages, and neither the
\* flags nor the evaluation of the result show the failures.
C32_UserFailuresInvisible ==
    /\ user_response.error =>
         /\ user_response.message = << "I need help with my issue." >>
         /\ ~user_response.goal_met
         /\ ~user_response.giving_up
    /\ (Returned /\ Budget >= 1 /\ EveryUserReplyFailed) =>
         /\ ~RunResult.goal_met
         /\ ~RunResult.giving_up
         /\ AgentMessages(RunResult.conversation_history) = Budget
         /\ RunResult.turns = Budget - 1
         /\ RunResult.evaluation = evaluate_conversation(scorer_response)

C32_Witness ==
    /\ Returned
    /\ Budget = 3
    /\ failures = 2
    /\ EveryUserReplyFailed
    /\ UserMessages(conversation_history) = 3
    /\ AgentMessages(conversation_history) = 3
    /\ user_response.error
    /\ scorer_response.ok
    /\ "error" \notin RunResult.evaluation.keys

\* -------------------------------------------- claims on the agent's messages
\* The positions of the list whose message is the given user message.
Occurrences(list, content) ==
    { i \in 1..Len(list) : list[i].role = "user" /\ list[i].content = content }

\* The latest user message of the transcript.
LatestUserMessage(h) ==
    h[CHOOSE i \in 1..Len(h) :
        /\ h[i].role = "user"
        /\ \A j \in (i + 1)..Len(h) : h[j].role # "user"].content

\* C34: the list the agent builds for its generator on an agent turn holds
\* the latest user message once and has no two consecutive messages of the
\* same role.
C34_AgentMessagesWellFormed ==
    (calls # << >> /\ calls[Len(calls)] = "respond") =>
        /\ Cardinality(Occurrences(messages,
               LatestUserMessage(SubSeq(conversation_history, 1,
                                        Len(conversation_history) - 1)))) = 1
        /\ \A i \in 1..(Len(messages) - 1) : messages[i].role # messages[i + 1].role

\* ------------------------------------------------ claims on an open fence
\* The position of the last unit of the opening marker of the scorer answer:
\* the label of the first labeled fence, else the first fence.
OpeningMarkerEnd(text) ==
    IF LabeledFences(text) # {} THEN Least(LabeledFences(text)) + 1
    ELSE Least(FencesAfter(text, 0))

\* The scorer answer has an opening fence marker and no fence after it.
Unclosed(text) ==
    /\ FencesAfter(text, 0) # {}
    /\ FencesAfter(text, OpeningMarkerEnd(text)) = {}

\* C35: for a scorer answer with an opening fence marker and no closing one
\* the text handed to the decoder is all that follows the opening marker,
\* trimmed of surrounding whitespace.
C35_UnclosedFenceRemainder ==
    (judged.called /\ scorer_answer.ok /\ Unclosed(scorer_answer.text)) =>
        LET text == scorer_answer.text
        IN  result_text = Strip(SubSeq(text, OpeningMarkerEnd(text) + 1, Len(text)))

\* ------------------------------------------------ claims on batch filters
\* C33: with a scenario_ids or personality_ids filter in the request, every
\* run of the batch uses a scenario / personality whose id is in the filter,
\* also when the filter names no entry of the catalog.
C33_RunsWithinFilter ==
    \A i \in 1..Len(sampled) :
        /\ scenario_ids # << >> => Contains(scenario_ids, sampled[i].scenario_id)
        /\ personality_ids # << >> =>
             Contains(personality_ids, sampled[i].personality_id)

====
